---- MODULE Spec2Model ----
(***************************************************************************)
(* Model of exp.py: run_experiment calls simulate_network twice (known     *)
(* demands, then unknown demands), writes results.txt and saves two bar    *)
(* charts.  simulate_network starts an emulated network, runs ten trials   *)
(* (receiver in the background, blocking sender, regex extraction of the   *)
(* metrics, pkill of the receiver), stops the network and averages.        *)
(*                                                                         *)
(* Floats are modelled as exact non-negative rationals <<n, d>> in lowest  *)
(* terms.  The text captured from the sender is modelled by what the three *)
(* regular expressions find in it.                                         *)
(***************************************************************************)
EXTENDS Integers, Sequences, FiniteSets

VARIABLES
    pc,               \* position of the single thread of control
    known_demands,    \* parameter of the running simulate_network call
    net,              \* state of the call's Mininet object
    links,            \* bandwidth of each link added to it
    traffic_demands,  \* the call's demand list
    idx,              \* number of demands the for loop has taken
    demand,           \* loop variable
    result,           \* captured sender output of the current trial
    latency, loss, sent_packets, lost_packets,   \* per-trial locals
    exc,              \* exception raised in the try block of the trial ("" if none)
    latencies, packet_losses,                    \* sample lists
    receivers,        \* iperf servers alive on h1
    senders,          \* iperf client runs in progress on h2
    running,          \* emulated networks currently started
    starts, stops,    \* net.start() / net.stop() calls so far
    calls,            \* simulate_network calls so far, per argument
    known_latency, known_loss, unknown_latency, unknown_loss,
    results_file,     \* content of results.txt (<<>> while not written)
    writes,           \* number of times results.txt was opened for writing
    charts,           \* chart files saved, in order
    varied            \* trials so far whose sender output was not the nominal one

vars == <<pc, known_demands, net, links, traffic_demands, idx, demand, result,
          latency, loss, sent_packets, lost_packets, exc, latencies,
          packet_losses, receivers, senders, running, starts, stops, calls,
          known_latency, known_loss, unknown_latency, unknown_loss,
          results_file, writes, charts, varied>>

-----------------------------------------------------------------------------
(* Bounds and program constants *)

\* at most this many trials of a run produce a sender output other than the
\* nominal one
MaxVaried == 2

NumTrials == 10
KnownDemand == 50
RandLo == 10
RandHi == 100
LinkBw == 100
ErrorLoss == 100

-----------------------------------------------------------------------------
(* Rational arithmetic standing for Python floats *)

RECURSIVE GCD(_, _)
GCD(a, b) == IF b = 0 THEN a ELSE GCD(b, a % b)

Rat(n, d) == LET g == GCD(n, d) IN <<n \div g, d \div g>>
Zero == <<0, 1>>
\* each operand is bound once, so that a sum of n terms is evaluated in n steps
RatAdd(x, y) ==
    CHOOSE z \in {Rat(a[1] * b[2] + b[1] * a[2], a[2] * b[2]) :
                     a \in {x}, b \in {y}} : TRUE
RatMulInt(x, k) == Rat(x[1] * k, x[2])
RatDivInt(x, k) == Rat(x[1], x[2] * k)
RatLeq(x, y) == x[1] * y[2] <= y[1] * x[2]
FromInt(k) == <<k, 1>>

RECURSIVE RatSum(_)
RatSum(s) == IF s = <<>> THEN Zero ELSE RatAdd(s[1], RatSum(Tail(s)))

-----------------------------------------------------------------------------
(* The sender's output, as the three searches see it *)

\* A decimal numeral "w.t" is <<w, t>>; an integer numeral is
\* [huge |-> FALSE, val |-> v], or [huge |-> TRUE, val |-> 0] for a digit
\* string of some 400 digits, above the range of a float.
\* A field is <<>> when its pattern matches nothing.
Numeral(v) == [huge |-> FALSE, val |-> v]
HugeNumeral == [huge |-> TRUE, val |-> 0]

Output(lat, pct, pk) == [lat |-> lat, pct |-> pct, pk |-> pk]

NominalOutput == Output(<<0, 5>>, <<>>, <<>>)
NoMatchOutput == Output(<<>>, <<>>, <<>>)
HalfLostOutput == Output(<<1, 5>>, <<25, 0>>, <<Numeral(1), Numeral(2)>>)
OverLostOutput == Output(<<>>, <<>>, <<Numeral(3), Numeral(2)>>)
ZeroSentOutput == Output(<<2, 0>>, <<12, 5>>, <<Numeral(1), Numeral(0)>>)
HugeLostOutput == Output(<<3, 0>>, <<25, 0>>, <<HugeNumeral, Numeral(1)>>)

Outputs == {NominalOutput, NoMatchOutput, HalfLostOutput, OverLostOutput,
            ZeroSentOutput, HugeLostOutput}

\* float("w.t")
Float(txt) == Rat(txt[1] * 10 + txt[2], 10)

\* lost_packets / sent_packets raises OverflowError when the quotient is
\* above the float range
DivOverflows(lost, sent) == lost.huge /\ ~sent.huge

\* (lost_packets / sent_packets) * 100, for operands in range
LossRate(lost, sent) == RatMulInt(Rat(lost.val, sent.val), 100)

Positive(n) == n.huge \/ n.val > 0

Locals(lat, ls, sent, lost, e) ==
    [latency |-> lat, loss |-> ls, sent_packets |-> sent,
     lost_packets |-> lost, exc |-> e]

\* variant: the locals are not reset at the start of a trial
KeepMetrics == Locals(latency, loss, sent_packets, lost_packets, "")

\* lines 53-56
InitMetrics == Locals(Zero, Zero, Numeral(0), Numeral(0), "")

\* body of the try block, lines 61-77, run on the locals m
TryBody(r, m) ==
    LET a == IF r.lat # <<>> THEN [m EXCEPT !.latency = Float(r.lat)] ELSE m
        b == IF r.pct # <<>> THEN [a EXCEPT !.loss = Float(r.pct)] ELSE a
        c == IF r.pk # <<>>
             THEN [b EXCEPT !.lost_packets = r.pk[1], !.sent_packets = r.pk[2]]
             ELSE b
    IN  IF r.pk # <<>> /\ Positive(c.sent_packets)
        THEN IF DivOverflows(c.lost_packets, c.sent_packets)
             THEN [c EXCEPT !.exc = "OverflowError"]
             ELSE [c EXCEPT !.loss = LossRate(c.lost_packets, c.sent_packets)]
        ELSE c

\* variant: the clause names ValueError alone
CatchesValueError(e) == e = "ValueError"

\* except Exception, line 78
Catches(e) == e \in {"OverflowError", "ValueError", "TypeError"}

\* the handler, lines 79-80
Handler(m) == [m EXCEPT !.loss = FromInt(ErrorLoss)]

\* try/except, lines 59-80; an exception the clause does not catch leaves
\* the locals as they were when it was raised
ParseMetrics(r, m) ==
    LET t == TryBody(r, m)
    IN  IF t.exc # "" /\ Catches(t.exc) THEN Handler(t) ELSE t

-----------------------------------------------------------------------------
(* Demand lists *)

\* variant: the upper end is passed by one
randintPastEnd(a, b) == a .. (b + 1)

randint(a, b) == a .. b

\* line 41, with the random draws taken among the values of draws
DemandLists(known, draws) ==
    [1 .. NumTrials -> IF known THEN {KnownDemand}
                       ELSE randint(RandLo, RandHi) \cap draws]

MidDraws == {55}
EdgeDraws == {RandLo - 1, RandLo, RandHi, RandHi + 1}

-----------------------------------------------------------------------------
(* Report formatting *)

\* format(x, ".2f"): x rounded to hundredths, half to even, as <<hundredths>>
Fmt2(x) ==
    LET n == x[1] * 100
        q == n \div x[2]
        r == n % x[2]
    IN  IF 2 * r > x[2] \/ (2 * r = x[2] /\ q % 2 = 1) THEN q + 1 ELSE q

MetricFile(i) == IF i = 1 THEN "latency_(ms)_comparison.png"
                 ELSE "packet_loss_(%)_comparison.png"

-----------------------------------------------------------------------------
Init ==
    /\ pc = "main_known"
    /\ known_demands = FALSE
    /\ net = "none"
    /\ links = <<>>
    /\ traffic_demands = <<>>
    /\ idx = 0
    /\ demand = 0
    /\ result = NoMatchOutput
    /\ latency = Zero
    /\ loss = Zero
    /\ sent_packets = Numeral(0)
    /\ lost_packets = Numeral(0)
    /\ exc = ""
    /\ latencies = <<>>
    /\ packet_losses = <<>>
    /\ receivers = 0
    /\ senders = 0
    /\ running = 0
    /\ starts = 0
    /\ stops = 0
    /\ calls = [k \in BOOLEAN |-> 0]
    /\ known_latency = <<>>
    /\ known_loss = <<>>
    /\ unknown_latency = <<>>
    /\ unknown_loss = <<>>
    /\ results_file = <<>>
    /\ writes = 0
    /\ charts = <<>>
    /\ varied = 0

mainVars == <<known_latency, known_loss, unknown_latency, unknown_loss,
              results_file, writes, charts>>
trialVars == <<result, latency, loss, sent_packets, lost_packets, exc>>
listVars == <<latencies, packet_losses>>
netVars == <<net, links, running, starts, stops>>

\* entry into simulate_network(k): a fresh frame
Enter(k) ==
    /\ known_demands' = k
    /\ calls' = [calls EXCEPT ![k] = @ + 1]
    /\ pc' = "start"
    /\ UNCHANGED <<netVars, traffic_demands, idx, demand, trialVars, listVars,
                   receivers, senders, mainVars, varied>>

\* line 100
CallKnown == pc = "main_known" /\ Enter(TRUE)

\* variant: the second call repeats the argument of the first
CallKnownAgain == pc = "main_unknown" /\ Enter(TRUE)

\* line 103
CallUnknown == pc = "main_unknown" /\ Enter(FALSE)

\* lines 22-38
StartNetwork ==
    /\ pc = "start"
    /\ net' = "started"
    /\ links' = <<LinkBw, LinkBw>>
    /\ running' = running + 1
    /\ starts' = starts + 1
    /\ pc' = "demands"
    /\ UNCHANGED <<known_demands, stops, traffic_demands, idx, demand,
                   trialVars, listVars, receivers, senders, calls, mainVars,
                   varied>>

\* lines 41-43
MakeDemands(draws) ==
    /\ pc = "demands"
    /\ traffic_demands' \in DemandLists(known_demands, draws)
    /\ latencies' = <<>>
    /\ packet_losses' = <<>>
    /\ idx' = 0
    /\ pc' = "loop"
    /\ UNCHANGED <<known_demands, netVars, demand, trialVars, receivers,
                   senders, calls, mainVars, varied>>

\* lines 45-47: the loop takes the next demand and starts the receiver
StartReceiver ==
    /\ pc = "loop"
    /\ idx < Len(traffic_demands)
    /\ idx' = idx + 1
    /\ demand' = traffic_demands[idx + 1]
    /\ receivers' = receivers + 1
    /\ pc' = "send"
    /\ UNCHANGED <<known_demands, netVars, traffic_demands, trialVars,
                   listVars, senders, calls, mainVars, varied>>

\* line 48: h2.cmd starts the sender and blocks
StartSender ==
    /\ pc = "send"
    /\ senders' = senders + 1
    /\ pc' = "wait"
    /\ UNCHANGED <<known_demands, netVars, traffic_demands, idx, demand,
                   trialVars, listVars, receivers, calls, mainVars, varied>>

\* variant: the sender is left running in the background when h2.cmd returns
SenderDetached(outs) ==
    /\ pc = "wait"
    /\ \E r \in outs :
         /\ r = NominalOutput \/ varied < MaxVaried
         /\ varied' = IF r = NominalOutput THEN varied ELSE varied + 1
         /\ result' = r
    /\ latency' = InitMetrics.latency
    /\ loss' = InitMetrics.loss
    /\ sent_packets' = InitMetrics.sent_packets
    /\ lost_packets' = InitMetrics.lost_packets
    /\ exc' = InitMetrics.exc
    /\ pc' = "parse"
    /\ UNCHANGED <<known_demands, netVars, traffic_demands, idx, demand,
                   listVars, receivers, senders, calls, mainVars>>

\* lines 48-56: the sender run ends, its output is captured, the locals reset
SenderReturns(outs) ==
    /\ pc = "wait"
    /\ \E r \in outs :
         /\ r = NominalOutput \/ varied < MaxVaried
         /\ varied' = IF r = NominalOutput THEN varied ELSE varied + 1
         /\ result' = r
    /\ senders' = senders - 1
    /\ latency' = InitMetrics.latency
    /\ loss' = InitMetrics.loss
    /\ sent_packets' = InitMetrics.sent_packets
    /\ lost_packets' = InitMetrics.lost_packets
    /\ exc' = InitMetrics.exc
    /\ pc' = "parse"
    /\ UNCHANGED <<known_demands, netVars, traffic_demands, idx, demand,
                   listVars, receivers, calls, mainVars>>

\* lines 59-80
Parse ==
    /\ pc = "parse"
    /\ LET m == ParseMetrics(result,
                    Locals(latency, loss, sent_packets, lost_packets, exc))
       IN  /\ latency' = m.latency
           /\ loss' = m.loss
           /\ sent_packets' = m.sent_packets
           /\ lost_packets' = m.lost_packets
           /\ exc' = m.exc
           /\ pc' = IF m.exc # "" /\ ~Catches(m.exc) THEN "aborted" ELSE "append"
    /\ UNCHANGED <<known_demands, netVars, traffic_demands, idx, demand,
                   result, listVars, receivers, senders, calls, mainVars,
                   varied>>

\* variant: a latency sample is recorded only when one was measured
AppendMeasured ==
    /\ pc = "append"
    /\ latencies' = IF result.lat # <<>> THEN Append(latencies, latency)
                     ELSE latencies
    /\ packet_losses' = Append(packet_losses, loss)
    /\ pc' = "kill"
    /\ UNCHANGED <<known_demands, netVars, traffic_demands, idx, demand,
                   trialVars, receivers, senders, calls, mainVars, varied>>

\* lines 83-84
AppendSamples ==
    /\ pc = "append"
    /\ latencies' = Append(latencies, latency)
    /\ packet_losses' = Append(packet_losses, loss)
    /\ pc' = "kill"
    /\ UNCHANGED <<known_demands, netVars, traffic_demands, idx, demand,
                   trialVars, receivers, senders, calls, mainVars, varied>>

\* variant: the kill is skipped for a trial whose parsing raised
KillUnlessRaised ==
    /\ pc = "kill"
    /\ receivers' = IF exc = "" THEN 0 ELSE receivers
    /\ pc' = "loop"
    /\ UNCHANGED <<known_demands, netVars, traffic_demands, idx, demand,
                   trialVars, listVars, senders, calls, mainVars, varied>>

\* line 86: pkill ends every iperf process
KillReceiver ==
    /\ pc = "kill"
    /\ receivers' = 0
    /\ pc' = "loop"
    /\ UNCHANGED <<known_demands, netVars, traffic_demands, idx, demand,
                   trialVars, listVars, senders, calls, mainVars, varied>>

\* variant: the network is left running after the last trial
LeaveNetworkRunning ==
    /\ pc = "loop"
    /\ idx = Len(traffic_demands)
    /\ pc' = "average"
    /\ UNCHANGED <<known_demands, netVars, traffic_demands, idx, demand,
                   trialVars, listVars, receivers, senders, calls, mainVars,
                   varied>>

\* lines 45, 88-89: the loop is exhausted and the network stopped
StopNetwork ==
    /\ pc = "loop"
    /\ idx = Len(traffic_demands)
    /\ net' = "stopped"
    /\ running' = running - 1
    /\ stops' = stops + 1
    /\ pc' = "average"
    /\ UNCHANGED <<known_demands, links, starts, traffic_demands, idx, demand,
                   trialVars, listVars, receivers, senders, calls, mainVars,
                   varied>>

\* lines 92-93
Average(s) == RatDivInt(RatSum(s), Len(s))

\* lines 92-95 and the assignment at the call site (line 100 or 103); the
\* frame of the call is dropped.  An empty list raises ZeroDivisionError,
\* which ends the script with the frame as it was.
ReturnAverages ==
    LET failed == Len(latencies) = 0 \/ Len(packet_losses) = 0
        toKnown == ~failed /\ known_demands
        toUnknown == ~failed /\ ~known_demands
        Drop(old, fresh) == IF failed THEN old ELSE fresh
    IN  /\ pc = "average"
        /\ pc' = IF failed THEN "aborted"
                 ELSE IF known_demands THEN "main_unknown" ELSE "main_write"
        /\ known_latency' =
              IF toKnown THEN Average(latencies) ELSE known_latency
        /\ known_loss' =
              IF toKnown THEN Average(packet_losses) ELSE known_loss
        /\ unknown_latency' =
              IF toUnknown THEN Average(latencies) ELSE unknown_latency
        /\ unknown_loss' =
              IF toUnknown THEN Average(packet_losses) ELSE unknown_loss
        /\ known_demands' = Drop(known_demands, FALSE)
        /\ net' = Drop(net, "none")
        /\ links' = Drop(links, <<>>)
        /\ traffic_demands' = Drop(traffic_demands, <<>>)
        /\ idx' = Drop(idx, 0)
        /\ demand' = Drop(demand, 0)
        /\ result' = Drop(result, NoMatchOutput)
        /\ latency' = Drop(latency, Zero)
        /\ loss' = Drop(loss, Zero)
        /\ sent_packets' = Drop(sent_packets, Numeral(0))
        /\ lost_packets' = Drop(lost_packets, Numeral(0))
        /\ exc' = Drop(exc, "")
        /\ latencies' = Drop(latencies, <<>>)
        /\ packet_losses' = Drop(packet_losses, <<>>)
        /\ UNCHANGED <<running, starts, stops, receivers, senders, calls,
                       results_file, writes, charts, varied>>

\* lines 106-109
WriteResults ==
    /\ pc = "main_write"
    /\ results_file' = <<Fmt2(known_latency), Fmt2(known_loss),
                         Fmt2(unknown_latency), Fmt2(unknown_loss)>>
    /\ writes' = writes + 1
    /\ pc' = "main_plot"
    /\ UNCHANGED <<known_demands, netVars, traffic_demands, idx, demand,
                   trialVars, listVars, receivers, senders, calls,
                   known_latency, known_loss, unknown_latency, unknown_loss,
                   charts, varied>>

\* lines 118-125, one pass of the loop over the two metrics
SaveChart ==
    /\ pc = "main_plot"
    /\ charts' = Append(charts, MetricFile(Len(charts) + 1))
    /\ pc' = IF Len(charts) + 1 = 2 THEN "done" ELSE "main_plot"
    /\ UNCHANGED <<known_demands, netVars, traffic_demands, idx, demand,
                   trialVars, listVars, receivers, senders, calls,
                   known_latency, known_loss, unknown_latency, unknown_loss,
                   results_file, writes, varied>>

Step(outs, draws) ==
    \/ CallKnown
    \/ StartNetwork
    \/ MakeDemands(draws)
    \/ StartReceiver
    \/ StartSender
    \/ SenderReturns(outs)
    \/ Parse
    \/ AppendSamples
    \/ KillReceiver
    \/ StopNetwork
    \/ ReturnAverages
    \/ CallUnknown
    \/ WriteResults
    \/ SaveChart

\* every sender output of Outputs, random draws fixed
Next == Step(Outputs, MidDraws)
Spec == Init /\ [][Next]_vars

\* nominal sender output, random draws at and around the ends of the range
NextDemands == Step({NominalOutput}, EdgeDraws)
SpecDemands == Init /\ [][NextDemands]_vars

\* sender outputs that parse, match nothing, or raise; the script is one
\* thread that keeps running until it ends
FairOutputs == {NominalOutput, NoMatchOutput, HugeLostOutput}
NextFair == Step(FairOutputs, MidDraws)
FairSpec == Init /\ [][NextFair]_vars /\ WF_vars(NextFair)

-----------------------------------------------------------------------------
(* Properties *)

InTrial == {"send", "wait", "parse", "append", "kill"}
InLoop == {"loop"} \cup InTrial
Last(s) == s[Len(s)]
NoMetric(r) == r.lat = <<>> /\ r.pct = <<>> /\ r.pk = <<>>

\* C1: a trial whose captured output matches none of the three patterns
\* records the loss sample 100.
C1_NoMetricRecordsErrorLoss ==
    (pc = "kill" /\ NoMetric(result)) => Last(packet_losses) = FromInt(ErrorLoss)

\* C2: an exception raised in the try block is caught: the trial appends one
\* latency sample and one loss sample, the loss sample is 100, and the run
\* goes on to the kill and the next trial instead of aborting.
C2_ExceptionIsCaught ==
    exc # "" =>
        /\ pc \in {"append", "kill", "loop", "send", "wait", "average"}
        /\ loss = FromInt(ErrorLoss)
        /\ pc = "append" =>
              Len(latencies) = idx - 1 /\ Len(packet_losses) = idx - 1
        /\ pc \in {"kill", "loop", "average"} =>
              /\ Len(latencies) = idx
              /\ Len(packet_losses) = idx
              /\ Last(packet_losses) = FromInt(ErrorLoss)
        /\ pc \in {"send", "wait"} =>
              /\ Len(latencies) = idx - 1
              /\ Len(packet_losses) = idx - 1
              /\ Last(packet_losses) = FromInt(ErrorLoss)

C2_Witness ==
    /\ exc = "OverflowError"
    /\ pc = "send"
    /\ idx >= 2
    /\ packet_losses[idx - 1] = FromInt(ErrorLoss)
    /\ receivers = 1

\* C3: the receiver started by a trial is killed after the trial's samples
\* are recorded and before the next receiver is started, whatever the
\* parsing did; none is alive once the network is stopped.
C3_ReceiverKilledEveryTrial ==
    /\ receivers <= 1
    /\ pc = "kill" =>
          receivers = 1 /\ Len(latencies) = idx /\ Len(packet_losses) = idx
    /\ pc = "loop" => receivers = 0
    /\ pc \in InTrial => receivers = 1
    /\ net # "started" => receivers = 0

C3_Witness ==
    /\ net = "stopped"
    /\ receivers = 0
    /\ \E i, j, k \in 1 .. NumTrials :
         /\ packet_losses[i] = FromInt(ErrorLoss)
         /\ packet_losses[j] = Zero /\ latencies[j] = Zero
         /\ latencies[k] = Float(NominalOutput.lat)

\* C4: at every trial boundary the two sample lists have the same length,
\* the number of completed trials; both hold 10 samples when the averages
\* are computed, so no average divides by zero.
C4_SampleListsInStep ==
    /\ pc = "loop" => Len(latencies) = idx /\ Len(packet_losses) = idx
    /\ pc = "send" => Len(latencies) = idx - 1 /\ Len(packet_losses) = idx - 1
    /\ pc = "average" =>
          Len(latencies) = NumTrials /\ Len(packet_losses) = NumTrials
    /\ pc # "aborted"

C4_Witness ==
    /\ pc = "average"
    /\ Len(latencies) = 10
    /\ Len(packet_losses) = 10
    /\ varied = MaxVaried

\* C5: trials run one after another: a trial's receiver and sender start
\* only after the previous trial's sender has returned and its samples are
\* recorded; never two sender runs in progress, never two receivers alive.
C5_TrialsSequential ==
    /\ senders <= 1
    /\ receivers <= 1
    /\ pc = "wait" <=> senders = 1
    /\ pc \in {"loop", "send"} =>
          /\ senders = 0
          /\ Len(latencies) = (IF pc = "loop" THEN idx ELSE idx - 1)
          /\ Len(packet_losses) = Len(latencies)
    /\ pc = "send" => receivers = 1

C5_Witness ==
    /\ pc = "wait"
    /\ idx = 3
    /\ Len(latencies) = 2
    /\ senders = 1
    /\ receivers = 1

\* C6: each scenario runs once, the known one first and to its end (network
\* stop and averages) before the unknown one starts; results.txt is written
\* once, after both scenarios returned; two charts are saved, after it.
C6_RunExperimentOrder ==
    /\ calls[TRUE] <= 1
    /\ calls[FALSE] <= 1
    /\ calls[FALSE] = 1 =>
          /\ calls[TRUE] = 1
          /\ known_latency # <<>> /\ known_loss # <<>>
          /\ stops >= 1
    /\ pc = "main_unknown" => running = 0 /\ stops = 1
    /\ writes <= 1
    /\ writes = 1 <=> results_file # <<>>
    /\ writes = 1 =>
          /\ calls[TRUE] = 1 /\ calls[FALSE] = 1
          /\ unknown_latency # <<>> /\ unknown_loss # <<>>
          /\ stops = 2
    /\ Len(charts) <= 2
    /\ Len(charts) > 0 => writes = 1
    /\ pc = "done" =>
          /\ calls[TRUE] = 1 /\ calls[FALSE] = 1
          /\ writes = 1
          /\ Len(charts) = 2 /\ charts[1] # charts[2]

C6_Witness == pc = "done" /\ writes = 1 /\ Len(charts) = 2

NumCalls == calls[TRUE] + calls[FALSE]

C7_NetworkState ==
    /\ running \in {0, 1}
    /\ running = starts - stops
    /\ starts <= NumCalls
    /\ pc = "start" => net = "none" /\ starts = NumCalls - 1
    /\ pc \in {"demands"} \cup InLoop =>
          net = "started" /\ running = 1 /\ starts = NumCalls
    /\ pc \in InTrial => idx \in 1 .. NumTrials
    /\ pc = "average" =>
          /\ net = "stopped" /\ running = 0
          /\ starts = NumCalls /\ stops = NumCalls
          /\ Len(latencies) = NumTrials
    /\ pc \in {"main_known", "main_unknown", "main_write", "main_plot", "done"}
          => running = 0 /\ starts = NumCalls /\ stops = NumCalls

\* C7: a call of simulate_network starts the network once, before the first
\* trial, and stops it once, after the last trial and before the averages;
\* every started network is eventually stopped; no two networks are started
\* at the same time.
C7_NetworkStartedAndStoppedOnce ==
    /\ []C7_NetworkState
    /\ (running = 1) ~> (running = 0)
    /\ <>(pc = "done" /\ starts = 2 /\ stops = 2)

C7_Witness ==
    /\ pc = "average"
    /\ net = "stopped"
    /\ calls[FALSE] = 1
    /\ starts = 2
    /\ stops = 2

C8_DemandsInRange ==
    pc \in InLoop \cup {"average"} =>
        /\ Len(traffic_demands) = 10
        /\ links = <<100, 100>>
        /\ \A i \in 1 .. Len(traffic_demands) :
             /\ known_demands => traffic_demands[i] = 50
             /\ ~known_demands => traffic_demands[i] \in 10 .. 100
             /\ \A l \in 1 .. Len(links) : traffic_demands[i] <= links[l]
        /\ pc \in InTrial => demand = traffic_demands[idx]

\* C8: the demand list is fixed before the first trial and has 10 entries:
\* all 50 when the demands are known, each in 10..100 otherwise, none above
\* the link bandwidth 100.
C8_DemandListFixed ==
    /\ []C8_DemandsInRange
    /\ [][(pc \in InLoop) => (traffic_demands' = traffic_demands)]_vars

C8_Witness ==
    /\ pc = "kill"
    /\ ~known_demands
    /\ idx = NumTrials
    /\ \E i, j \in 1 .. NumTrials :
         traffic_demands[i] = 10 /\ traffic_demands[j] = 100

\* the samples a trial is to record, from its captured output alone
ExpectedLatency(r) == IF r.lat # <<>> THEN Float(r.lat) ELSE Zero
ExpectedLoss(r) ==
    IF r.pk # <<>> /\ Positive(r.pk[2])
    THEN IF r.pk[1].huge THEN FromInt(ErrorLoss)
         ELSE Rat(r.pk[1].val * 100, r.pk[2].val)
    ELSE IF r.pct # <<>> THEN Float(r.pct) ELSE Zero

\* C9: a trial changes the sample lists only by appending one entry to
\* each; recorded samples are never changed or removed by a later trial;
\* the entry appended depends on that trial's captured output alone.
C9_TrialOnlyAppends ==
    [][(pc \in InLoop) =>
          /\ pc = "append" =>
                /\ latencies' = Append(latencies, ExpectedLatency(result))
                /\ packet_losses' = Append(packet_losses, ExpectedLoss(result))
          /\ pc # "append" => UNCHANGED <<latencies, packet_losses>>]_vars

C9_Witness ==
    /\ pc = "kill"
    /\ idx >= 3
    /\ packet_losses[idx - 2] = FromInt(ErrorLoss)
    /\ latencies[idx - 1] = Float(NominalOutput.lat)
    /\ NoMetric(result)
    /\ latencies[idx] = Zero
    /\ packet_losses[idx] = Zero

InRange(x) == RatLeq(Zero, x) /\ RatLeq(x, FromInt(100))

\* C10: every loss sample recorded, and so every average loss returned, is
\* between 0 and 100.
C10_LossWithinPercentRange ==
    /\ \A k \in 1 .. Len(packet_losses) : InRange(packet_losses[k])
    /\ known_loss # <<>> => InRange(known_loss)
    /\ unknown_loss # <<>> => InRange(unknown_loss)

====
